---- MODULE Spec2Model ----
(***************************************************************************)
(* Statement ingestion pipeline of the personal-adviser application.       *)
(*                                                                         *)
(* Two revisions of the statement router are modelled side by side:        *)
(*   - src/src/server/routers/statement.ts: upload creates the Statement,  *)
(*     starts a detached task (void (async () => ...)()) and answers at    *)
(*     once; process re-runs the pipeline inside the request;              *)
(*   - src/unnamed/part_000: upload writes the blob to storage, creates    *)
(*     the Statement and runs the pipeline inside the request, persisting  *)
(*     the parsed transactions.                                            *)
(* Every awaited call is one step of a run, so runs interleave exactly at  *)
(* the awaits of the source. Every awaited database call may throw.        *)
(*                                                                         *)
(* The libraries under the router have specifications of their own:        *)
(*   - parseTransactions (SpecParser), on texts given by their characters; *)
(*   - processUploadedFile with processStatement and extractTextFromPdf    *)
(*     (SpecExtract): one extraction call, its temporary files on disk;    *)
(*   - two such calls that interleave at their awaits (SpecConcurrent).    *)
(***************************************************************************)
EXTENDS Integers, Sequences, FiniteSets, TLC

\* ---------------------------------------------------------------- bounds
MaxRuns == 2          \* pipeline runs started in one behaviour
MaxTx == 2            \* transactions the parser finds in one text

MaxTokens == 4        \* tokens a parsed text is made of
MaxParses == 2        \* calls of parseTransactions in one behaviour
MaxClock == 2         \* ticks of the clock in one behaviour

\* ------------------------------------------------------------ constants
Users == {"u1", "u2"}

UPLOADED == "UPLOADED"
PROCESSING == "PROCESSING"
REVIEW_NEEDED == "REVIEW_NEEDED"
COMPLETED == "COMPLETED"
FAILED == "FAILED"
StatementStatus == {UPLOADED, PROCESSING, REVIEW_NEEDED, COMPLETED, FAILED}

None == 0             \* absent id (undefined / null)
NoText == ""          \* absent string (undefined / null)
NoBalance == -1       \* accountInfo.balance === undefined

Institutions == {"Chase", "Citi"}
LastFours == {"1234"}
Balances == {0, 250}

\* what extractAccountInfo can return for a text: the fields the router reads
AccountInfos ==
    [financialInstitution : Institutions \cup {NoText},
     lastFourDigits : LastFours \cup {NoText},
     balance : Balances \cup {NoBalance}]

NoInfo == [financialInstitution |-> NoText, lastFourDigits |-> NoText, balance |-> NoBalance]

\* the error texts processUploadedFile returns with success: false
ExtractionErrors ==
    {"No text could be extracted from the file", "Error during Vision AI processing"}

DbError == "database error"     \* message of an error thrown by a database call

\* file names, as the strings of characters that endsWith inspects
Filenames ==
    {<<"a", ".", "p", "d", "f">>, <<"a", ".", "P", "D", "F">>,
     <<"a", ".", "j", "p", "g">>, <<"p", "d", "f">>}

\* MIME types, as <<type, subtype>> (the two sides of the "/")
PdfType == <<"application", "pdf">>
JpegType == <<"image", "jpeg">>
FileTypes == {PdfType, JpegType, <<"image", "png">>, <<"text", "csv">>}

\* input.filename and input.fileType of an upload request
Files == [filename : Filenames, fileType : FileTypes]
PdfUploads == {f \in Files : f.fileType = PdfType}      \* a PDF under any name
PdfUpload == [filename |-> <<"a", ".", "p", "d", "f">>, fileType |-> PdfType]

VARIABLES
    statements,     \* Statement rows, the id of a row is its index
    accounts,       \* BankAccount rows, the id of a row is its index
    transactions,   \* number of Transaction rows of each statement
    runs,           \* pipeline runs (the task of an upload, a process call)
    reply,          \* answer of the latest request that ended without a run
    text,           \* the text handed to parseTransactions, as its characters
    clock,          \* what new Date() / Date.now() reads
    parsed,         \* the calls of parseTransactions made so far, with their results
    job,            \* the extraction call in progress (processUploadedFile)
    files,          \* the temporary files on disk
    other           \* a second extraction call, suspended at one of its awaits

routerVars == <<statements, accounts, transactions, runs, reply>>
libVars == <<text, clock, parsed, job, files, other>>
vars ==
    <<statements, accounts, transactions, runs, reply, text, clock, parsed, job, files, other>>

StatementIds == 1..Len(statements)
AccountIds == 1..Len(accounts)
RunIds == 1..Len(runs)

\* what a request answers: a tRPC error code, {success, statementId}, or a Statement row
NoReply == [code |-> "none", statementId |-> None, status |-> NoText]
ErrorReply(code) == [code |-> code, statementId |-> None, status |-> NoText]

\* answer of a request that ran no pipeline: new TRPCError({code, message}), or a row
TRPCError(code, message) == [code |-> code, message |-> message]
Returned == [code |-> "statement", message |-> NoText]
SuccessReply(sid) == [code |-> "success", statementId |-> sid, status |-> NoText]
StatementReply(sid, status) == [code |-> "statement", statementId |-> sid, status |-> status]

\* ------------------------------------------------------------- helpers

\* void (async () => { ... })(): the task of statement.ts upload is detached,
\* the pipelines of part_000 upload and of process are awaited by the request
Detached_awaited(kind) == FALSE
Detached(kind) == kind = "upload"

\* prisma.statement.create({data: {filename, ..., status: UPLOADED, ...}})
NewStatement(userId, filename, hasUrl, accountId) ==
    [userId |-> userId, filename |-> filename, status |-> UPLOADED, hasUrl |-> hasUrl,
     accountId |-> accountId, errorMessage |-> NoText, processedTimestamp |-> FALSE]

\* String.prototype.endsWith
EndsWith(str, suffix) ==
    /\ Len(str) >= Len(suffix)
    /\ SubSeq(str, Len(str) - Len(suffix) + 1, Len(str)) = suffix

\* process: statement.filename.endsWith(".pdf") ? "application/pdf" : "image/jpeg"
FileTypeOf_suffix(filename) ==
    IF EndsWith(filename, <<"p", "d", "f">>) THEN PdfType ELSE JpegType
FileTypeOf(filename) ==
    IF EndsWith(filename, <<".", "p", "d", "f">>) THEN PdfType ELSE JpegType

\* processStatement: fileType.includes('image/') or fileType === 'application/pdf',
\* any other type throws "Unsupported file type"
Supported(fileType) == fileType[1] = "image" \/ fileType = PdfType

\* new Error(processingResult.error || "Failed to process statement text")
ThrownMessage(error) == IF error # NoText THEN error ELSE "Failed to process statement text"

\* bankAccount.findFirst({where: {userId, financialInstitution, lastFourDigits}}):
\* the rows the query can return (no orderBy: any matching row)
MatchingAccounts_none(userId, info) == {}
MatchingAccounts_anyUser(userId, info) ==
    {a \in AccountIds :
        /\ accounts[a].financialInstitution = info.financialInstitution
        /\ accounts[a].lastFourDigits = info.lastFourDigits}
MatchingAccounts(userId, info) ==
    {a \in AccountIds :
        /\ accounts[a].userId = userId
        /\ accounts[a].financialInstitution = info.financialInstitution
        /\ accounts[a].lastFourDigits = info.lastFourDigits}

\* if (!accountId && accountInfo.lastFourDigits && accountInfo.financialInstitution)
NeedsResolution_noIdCheck(accountId, info) ==
    info.lastFourDigits # NoText /\ info.financialInstitution # NoText
NeedsResolution(accountId, info) ==
    accountId = None /\ info.lastFourDigits # NoText /\ info.financialInstitution # NoText

\* if (accountInfo.balance !== undefined)
BalanceExtracted_truthy(info) == info.balance # NoBalance /\ info.balance # 0
BalanceExtracted(info) == info.balance # NoBalance

\* bankAccount.create({data: {userId, financialInstitution, lastFourDigits, balance, ...}})
NewAccount(userId, info) ==
    [userId |-> userId, financialInstitution |-> info.financialInstitution,
     lastFourDigits |-> info.lastFourDigits, balance |-> info.balance]

\* data of the final update: {accountId, status: COMPLETED, processedTimestamp: new Date()}.
\* Prisma skips a field whose value is undefined and writes one whose value is
\* null: upload's accountId is input.accountId (undefined when not supplied),
\* process's is statement.accountId (null when not set); part_000 writes no accountId.
CompletedData_review(run, row) == [row EXCEPT !.status = REVIEW_NEEDED, !.processedTimestamp = TRUE]
CompletedData(run, row) ==
    [row EXCEPT !.status = COMPLETED,
                !.processedTimestamp = TRUE,
                !.accountId = IF run.accountId # None THEN run.accountId
                              ELSE IF run.kind = "process" THEN None
                              ELSE row.accountId]

\* data of the catch update: {status: FAILED, errorMessage: error.message,
\* processedTimestamp: new Date()}
FailedData_noMessage(error, row) ==
    [row EXCEPT !.status = FAILED, !.processedTimestamp = TRUE]
FailedData_unknown(error, row) ==
    [row EXCEPT !.status = FAILED, !.errorMessage = "Unknown error", !.processedTimestamp = TRUE]
FailedData(error, row) ==
    [row EXCEPT !.status = FAILED, !.errorMessage = error, !.processedTimestamp = TRUE]

NewRun(kind, userId, sid, accountId, fileType) ==
    [kind |-> kind, userId |-> userId, sid |-> sid, pc |-> "setProcessing",
     fileType |-> fileType,
     inputAccountId |-> accountId, accountId |-> accountId, info |-> NoInfo,
     existing |-> None, nTx |-> 0, error |-> NoText,
     response |-> IF Detached(kind) THEN SuccessReply(sid) ELSE NoReply,
     lookupSaw |-> None, created |-> None]

\* the run ends: its locals go out of scope, the awaiting request (if any) is
\* answered; error keeps what the run threw, for the record
Finish(run, answer) ==
    [run EXCEPT !.pc = "done", !.info = NoInfo, !.existing = None, !.nTx = 0,
                !.accountId = None, !.inputAccountId = None,
                !.response = IF Detached(run.kind) THEN run.response ELSE answer]

\* a step inside the try block threw: control moves to the catch block
Throw_retry(run, message) ==
    [run EXCEPT !.pc = "extract", !.error = message, !.info = NoInfo, !.existing = None,
                !.nTx = 0, !.accountId = run.inputAccountId]
Throw(run, message) ==
    [run EXCEPT !.pc = "catch", !.error = message, !.info = NoInfo, !.existing = None,
                !.nTx = 0, !.accountId = None]

\* the account resolution is over: accountInfo is not read again
Resolved(run) == [run EXCEPT !.pc = "setCompleted", !.info = NoInfo, !.existing = None]

\* no extraction call is in progress
NoJob == [pc |-> "idle"]

Active == {r \in RunIds : runs[r].pc # "done"}

Init ==
    /\ statements = <<>>
    /\ accounts = <<>>
    /\ transactions = <<>>
    /\ runs = <<>>
    /\ reply = [code |-> "none", message |-> NoText]
    /\ text = <<>>
    /\ clock = 0
    /\ parsed = <<>>
    /\ job = NoJob
    /\ other = NoJob
    /\ files = {}


\* ------------------------------------------------------------- requests

\* throw new TRPCError({code: "INTERNAL_SERVER_ERROR", ...}) of the synchronous part
\* of upload; an error that escapes a procedure is answered by tRPC with the same code
SyncFailure_badRequest == "BAD_REQUEST"
SyncFailure == "INTERNAL_SERVER_ERROR"

\* an error that no handler code catches: tRPC answers it with SyncFailure
Uncaught == TRPCError(SyncFailure, DbError)

\* the runs upload starts once prisma.statement.create has been awaited:
\* none when the create threw (the catch block answers instead)
StartedRuns_always(created, run) == <<run>>
StartedRuns(created, run) == IF created THEN <<run>> ELSE <<>>

\* statementRouter.upload of statement.ts: create the Statement, start the
\* detached task, answer {success, statementId}
Upload(userId, accountId, file) ==
    /\ Len(runs) < MaxRuns
    /\ Len(statements) < MaxRuns
    /\ \E created \in BOOLEAN :
        LET sid == Len(statements) + 1 IN
        /\ statements' = IF created
                         THEN Append(statements,
                                     NewStatement(userId, file.filename, TRUE, accountId))
                         ELSE statements
        /\ transactions' = IF created THEN Append(transactions, 0) ELSE transactions
        /\ runs' = runs \o StartedRuns(created,
                        NewRun("upload", userId, sid, accountId, file.fileType))
        /\ reply' = IF created THEN reply
                     ELSE TRPCError(SyncFailure, "Failed to upload statement")
    /\ UNCHANGED accounts
    /\ UNCHANGED libVars

\* statementRouter.upload of part_000: write the blob to storage when fileData is
\* given, create the Statement, return it as it is when there is no storage URL,
\* otherwise run the pipeline inside the request
UploadAwaited(userId, hasFileUrl, hasFileData, file) ==
    /\ Len(runs) < MaxRuns
    /\ Len(statements) < MaxRuns
    /\ \E stored \in BOOLEAN, created \in BOOLEAN :
        LET sid == Len(statements) + 1
            storageUrl == (hasFileData /\ stored) \/ (~hasFileData /\ hasFileUrl)
        IN
        IF hasFileData /\ ~stored
        THEN \* uploadToStorage returned an error
             /\ reply' = TRPCError(SyncFailure, "Failed to upload file")
             /\ UNCHANGED <<statements, transactions, runs>>
        ELSE IF ~created
        THEN \* prisma.statement.create threw, outside of any try block
             /\ reply' = Uncaught
             /\ UNCHANGED <<statements, transactions, runs>>
        ELSE /\ statements' = Append(statements,
                                     NewStatement(userId, file.filename, storageUrl, None))
             /\ transactions' = Append(transactions, 0)
             /\ IF storageUrl
                THEN /\ runs' = Append(runs, NewRun("uploadAwaited", userId, sid, None,
                                                      file.fileType))
                     /\ UNCHANGED reply
                ELSE /\ reply' = Returned
                     /\ UNCHANGED runs
    /\ UNCHANGED accounts
    /\ UNCHANGED libVars

\* statementRouter.process up to its first write: look the statement up for the
\* caller, answer NOT_FOUND / BAD_REQUEST, otherwise enter the pipeline
Process_guarded(userId, sid) ==
    /\ Len(runs) < MaxRuns
    /\ \E found \in BOOLEAN :
        IF ~found
        THEN reply' = Uncaught /\ UNCHANGED runs
        ELSE IF ~(sid \in StatementIds /\ statements[sid].userId = userId)
        THEN reply' = TRPCError("NOT_FOUND", "Statement not found") /\ UNCHANGED runs
        ELSE IF ~statements[sid].hasUrl
        THEN reply' = TRPCError("BAD_REQUEST", "Statement has no storage URL")
             /\ UNCHANGED runs
        ELSE IF statements[sid].status \in {UPLOADED, PROCESSING}
        THEN reply' = TRPCError("CONFLICT", "Statement is being processed")
             /\ UNCHANGED runs
        ELSE /\ runs' = Append(runs, NewRun("process", userId, sid,
                                             statements[sid].accountId,
                                             FileTypeOf(statements[sid].filename)))
             /\ UNCHANGED reply
    /\ UNCHANGED <<statements, accounts, transactions>>
    /\ UNCHANGED libVars
Process(userId, sid) ==
    /\ Len(runs) < MaxRuns
    /\ \E found \in BOOLEAN :
        IF ~found
        THEN reply' = Uncaught /\ UNCHANGED runs
        ELSE IF ~(sid \in StatementIds /\ statements[sid].userId = userId)
        THEN reply' = TRPCError("NOT_FOUND", "Statement not found") /\ UNCHANGED runs
        ELSE IF ~statements[sid].hasUrl
        THEN reply' = TRPCError("BAD_REQUEST", "Statement has no storage URL")
             /\ UNCHANGED runs
        ELSE /\ runs' = Append(runs, NewRun("process", userId, sid,
                                             statements[sid].accountId,
                                             FileTypeOf(statements[sid].filename)))
             /\ UNCHANGED reply
    /\ UNCHANGED <<statements, accounts, transactions>>
    /\ UNCHANGED libVars

\* statementRouter.getRecent: findMany of the caller's statements, answered with
\* the list (possibly empty)
Listed == [code |-> "statements", message |-> NoText]
GetRecent(userId) ==
    /\ \E ok \in BOOLEAN : reply' = IF ok THEN Listed ELSE Uncaught
    /\ UNCHANGED <<statements, accounts, transactions, runs>>
    /\ UNCHANGED libVars

\* statementRouter.getById: findUnique by id and userId, NOT_FOUND when no row
GetById_anyUser(userId, sid) ==
    /\ \E ok \in BOOLEAN :
        reply' = IF ~ok THEN Uncaught
                 ELSE IF ~(sid \in StatementIds)
                 THEN TRPCError("NOT_FOUND", "Statement not found")
                 ELSE Returned
    /\ UNCHANGED <<statements, accounts, transactions, runs>>
    /\ UNCHANGED libVars
GetById(userId, sid) ==
    /\ \E ok \in BOOLEAN :
        reply' = IF ~ok THEN Uncaught
                 ELSE IF ~(sid \in StatementIds /\ statements[sid].userId = userId)
                 THEN TRPCError("NOT_FOUND", "Statement not found")
                 ELSE Returned
    /\ UNCHANGED <<statements, accounts, transactions, runs>>
    /\ UNCHANGED libVars

\* statementRouter.linkToAccount: both rows must be the caller's
LinkToAccount(userId, sid, aid) ==
    /\ \E ok \in BOOLEAN :
        IF ~ok
        THEN reply' = Uncaught /\ UNCHANGED statements
        ELSE IF ~(sid \in StatementIds /\ statements[sid].userId = userId)
        THEN reply' = TRPCError("NOT_FOUND", "Statement not found")
             /\ UNCHANGED statements
        ELSE IF ~(aid \in AccountIds /\ accounts[aid].userId = userId)
        THEN reply' = TRPCError("NOT_FOUND", "Bank account not found")
             /\ UNCHANGED statements
        ELSE /\ statements' = [statements EXCEPT ![sid].accountId = aid]
             /\ reply' = Returned
    /\ UNCHANGED <<accounts, transactions, runs>>
    /\ UNCHANGED libVars

\* ------------------------------------------------------- pipeline steps

\* statement.update({data: {status: PROCESSING}}): inside the try block in both
\* uploads, before the try block in process
SetProcessing_unchecked(r) ==
    /\ runs[r].pc = "setProcessing"
    /\ \E ok \in BOOLEAN :
        /\ statements' = IF ok THEN [statements EXCEPT ![runs[r].sid].status = PROCESSING]
                         ELSE statements
        /\ runs' = [runs EXCEPT ![r].pc = "extract"]
    /\ UNCHANGED <<accounts, transactions, reply>>
    /\ UNCHANGED libVars
SetProcessing(r) ==
    /\ runs[r].pc = "setProcessing"
    /\ \E ok \in BOOLEAN :
        IF ok
        THEN /\ statements' = [statements EXCEPT ![runs[r].sid].status = PROCESSING]
             /\ runs' = [runs EXCEPT ![r].pc = "extract"]
        ELSE /\ runs' = [runs EXCEPT ![r] =
                    IF runs[r].kind = "process" THEN Finish(@, ErrorReply(SyncFailure))
                    ELSE Throw(@, DbError)]
             /\ UNCHANGED statements
    /\ UNCHANGED <<accounts, transactions, reply>>
    /\ UNCHANGED libVars

\* processUploadedFile and what the router makes of its result
Extract(r) ==
    /\ runs[r].pc = "extract"
    /\ \/ \E e \in ExtractionErrors :
            runs' = [runs EXCEPT ![r] = Throw(@, ThrownMessage(e))]
       \/ /\ Supported(runs[r].fileType)
          /\ runs[r].kind \in {"upload", "process"}
          /\ \E info \in AccountInfos :
                runs' = [runs EXCEPT ![r] =
                            IF NeedsResolution(runs[r].accountId, info)
                            THEN [@ EXCEPT !.info = info, !.pc = "findAccount"]
                            ELSE Resolved(@)]
       \/ /\ Supported(runs[r].fileType)
          /\ runs[r].kind = "uploadAwaited"
          /\ \E n \in 0..MaxTx :
                runs' = [runs EXCEPT ![r].nTx = n, ![r].pc = "insertTx"]
    /\ UNCHANGED <<statements, accounts, transactions, reply>>
    /\ UNCHANGED libVars

\* the awaited processUploadedFile never settles (no call of the extraction has
\* a timeout): the run stays at this await for ever
Hang(r) ==
    /\ runs[r].pc = "extract"
    /\ runs' = [runs EXCEPT ![r].pc = "hung"]
    /\ UNCHANGED <<statements, accounts, transactions, reply>>
    /\ UNCHANGED libVars

\* bankAccount.findFirst and the branch taken on its result
FindAccount(r) ==
    /\ runs[r].pc = "findAccount"
    /\ \/ runs' = [runs EXCEPT ![r] = Throw(@, DbError)]
       \/ LET m == MatchingAccounts(runs[r].userId, runs[r].info) IN
          IF m = {}
          THEN runs' = [runs EXCEPT ![r].pc = "createAccount",
                                    ![r].lookupSaw = Len(accounts)]
          ELSE \E a \in m :
                runs' = [runs EXCEPT ![r] =
                            LET found == [@ EXCEPT !.accountId = a, !.existing = a,
                                                   !.lookupSaw = Len(accounts)]
                            IN IF BalanceExtracted(runs[r].info)
                               THEN [found EXCEPT !.pc = "updateBalance"]
                               ELSE Resolved(found)]
    /\ UNCHANGED <<statements, accounts, transactions, reply>>
    /\ UNCHANGED libVars

\* bankAccount.update({where: {id: existingAccount.id}, data: {balance}})
UpdateBalance(r) ==
    /\ runs[r].pc = "updateBalance"
    /\ \/ /\ accounts' = [accounts EXCEPT ![runs[r].existing].balance = runs[r].info.balance]
          /\ runs' = [runs EXCEPT ![r] = Resolved(@)]
       \/ /\ runs' = [runs EXCEPT ![r] = Throw(@, DbError)]
          /\ UNCHANGED accounts
    /\ UNCHANGED <<statements, transactions, reply>>
    /\ UNCHANGED libVars

\* bankAccount.create, accountId = newAccount.id
CreateAccount(r) ==
    /\ runs[r].pc = "createAccount"
    /\ \/ /\ accounts' = Append(accounts, NewAccount(runs[r].userId, runs[r].info))
          /\ runs' = [runs EXCEPT ![r] =
                        Resolved([@ EXCEPT !.accountId = Len(accounts) + 1,
                                           !.created = Len(accounts) + 1])]
       \/ /\ runs' = [runs EXCEPT ![r] = Throw(@, DbError)]
          /\ UNCHANGED accounts
    /\ UNCHANGED <<statements, transactions, reply>>
    /\ UNCHANGED libVars

\* part_000: Promise.all over transaction.create of every parsed transaction;
\* it rejects as soon as one insert fails, whatever the others did
InsertTransactions(r) ==
    /\ runs[r].pc = "insertTx"
    /\ \E inserted \in 0..runs[r].nTx :
        /\ transactions' = [transactions EXCEPT ![runs[r].sid] = @ + inserted]
        /\ runs' = [runs EXCEPT ![r] =
                IF inserted = runs[r].nTx THEN [@ EXCEPT !.pc = "setCompleted", !.nTx = 0]
                ELSE Throw(@, DbError)]
    /\ UNCHANGED <<statements, accounts, reply>>
    /\ UNCHANGED libVars

\* the final statement.update of the try block
SetCompleted(r) ==
    /\ runs[r].pc = "setCompleted"
    /\ \/ /\ statements' = [statements EXCEPT ![runs[r].sid] = CompletedData(runs[r], @)]
          /\ runs' = [runs EXCEPT ![r] = Finish(@, StatementReply(runs[r].sid, COMPLETED))]
       \/ /\ runs' = [runs EXCEPT ![r] = Throw(@, DbError)]
          /\ UNCHANGED statements
    /\ UNCHANGED <<accounts, transactions, reply>>
    /\ UNCHANGED libVars

\* the catch block: statement.update with FAILED; when this update throws too the
\* error leaves the run (an unhandled rejection of the detached task, an error
\* answer of the awaiting request)
MarkFailed(r) ==
    /\ runs[r].pc = "catch"
    /\ \/ /\ statements' = [statements EXCEPT ![runs[r].sid] = FailedData(runs[r].error, @)]
          /\ runs' = [runs EXCEPT ![r] = Finish(@, StatementReply(runs[r].sid, FAILED))]
       \/ /\ runs' = [runs EXCEPT ![r] = Finish(@, ErrorReply(SyncFailure))]
          /\ UNCHANGED statements
    /\ UNCHANGED <<accounts, transactions, reply>>
    /\ UNCHANGED libVars

\* ---------------------------------------------------------- the parser

Digits == {"0", "1", "2", "3", "4", "5", "6", "7", "8", "9"}
DigitValue ==
    "0" :> 0 @@ "1" :> 1 @@ "2" :> 2 @@ "3" :> 3 @@ "4" :> 4 @@
    "5" :> 5 @@ "6" :> 6 @@ "7" :> 7 @@ "8" :> 8 @@ "9" :> 9
Whitespace == {" ", "\t", "\r", "\n"}       \* what String.prototype.trim removes

\* the pieces the texts handed to the parser are made of
Tokens ==
    {<<"$", "4", ".", "5", "0">>, <<"$", "1", "2", ".", "0", "0">>, <<"$", "4", ".", "5">>,
     <<"4", ".", "5", "0">>, <<"a">>, <<" ">>, <<"\n">>}

RECURSIVE Flatten(_)
Flatten(ts) == IF ts = <<>> THEN <<>> ELSE Head(ts) \o Flatten(Tail(ts))

Texts == UNION {{Flatten(ts) : ts \in [1..k -> Tokens]} : k \in 0..MaxTokens}

\* text.split("\n")
RECURSIVE Split(_)
Split(str) ==
    LET breaks == {i \in 1..Len(str) : str[i] = "\n"} IN
    IF breaks = {} THEN <<str>>
    ELSE LET i == CHOOSE b \in breaks : \A c \in breaks : b <= c
         IN <<SubSeq(str, 1, i - 1)>> \o Split(SubSeq(str, i + 1, Len(str)))

\* line.trim()
Trim(str) ==
    LET kept == {i \in 1..Len(str) : str[i] \notin Whitespace} IN
    IF kept = {} THEN <<>>
    ELSE SubSeq(str, CHOOSE a \in kept : \A b \in kept : a <= b,
                     CHOOSE a \in kept : \A b \in kept : a >= b)

\* \d+ is greedy: the last index of the run of digits that follows index k
RECURSIVE DigitsEnd(_, _)
DigitsEnd(line, k) ==
    IF k + 1 <= Len(line) /\ line[k + 1] \in Digits THEN DigitsEnd(line, k + 1) ELSE k

\* /\$\d+\.\d{2}/ tried at index i: the index of the last character matched, 0
\* when the pattern does not match there
MatchEnd(line, i) ==
    LET k == DigitsEnd(line, i) IN
    IF /\ line[i] = "$"
       /\ k > i
       /\ k + 3 <= Len(line)
       /\ line[k + 1] = "."
       /\ line[k + 2] \in Digits
       /\ line[k + 3] \in Digits
    THEN k + 3 ELSE 0

\* line.match(/\$\d+\.\d{2}/)?.[0] || "": the regex engine tries the indices
\* from the left and stops at the first match; test() is true iff there is one
FirstMatch_last(line) ==
    LET starts == {i \in 1..Len(line) : MatchEnd(line, i) > 0} IN
    IF starts = {} THEN <<>>
    ELSE LET i == CHOOSE a \in starts : \A b \in starts : a >= b
         IN SubSeq(line, i, MatchEnd(line, i))
FirstMatch(line) ==
    LET starts == {i \in 1..Len(line) : MatchEnd(line, i) > 0} IN
    IF starts = {} THEN <<>>
    ELSE LET i == CHOOSE a \in starts : \A b \in starts : a <= b
         IN SubSeq(line, i, MatchEnd(line, i))

\* .replace('$', ''): the first "$" is removed
RemoveDollar(str) ==
    LET at == {i \in 1..Len(str) : str[i] = "$"} IN
    IF at = {} THEN str
    ELSE LET i == CHOOSE a \in at : \A b \in at : a <= b
         IN SubSeq(str, 1, i - 1) \o SubSeq(str, i + 1, Len(str))

\* the number a string of digits denotes
RECURSIVE NumberOf(_)
NumberOf(digits) ==
    IF digits = <<>> THEN 0
    ELSE 10 * NumberOf(SubSeq(digits, 1, Len(digits) - 1)) + DigitValue[digits[Len(digits)]]

\* parseFloat of digits "." two digits; the amount is kept in hundredths
ParseFloat(str) ==
    LET dot == CHOOSE i \in 1..Len(str) : str[i] = "." IN
    100 * NumberOf(SubSeq(str, 1, dot - 1)) + NumberOf(SubSeq(str, dot + 1, Len(str)))

\* the lines for which the regex test succeeds, in their order
Matching(str) == SelectSeq(Split(str), LAMBDA line : FirstMatch(line) # <<>>)

\* parseTransactions(text); dates[n] is what new Date() reads when the n-th
\* transaction is pushed
ParseTransactions_epoch(str, dates) ==
    [n \in 1..Len(Matching(str)) |->
        [description |-> Trim(Matching(str)[n]),
         amount |-> ParseFloat(RemoveDollar(FirstMatch(Matching(str)[n]))),
         date |-> 0]]
ParseTransactions(str, dates) ==
    [n \in 1..Len(Matching(str)) |->
        [description |-> Trim(Matching(str)[n]),
         amount |-> ParseFloat(RemoveDollar(FirstMatch(Matching(str)[n]))),
         date |-> dates[n]]]

\* the readings of a clock that does not run backwards, n of them from time t on
Readings(n, t) ==
    {d \in [1..n -> t..MaxClock] : \A i \in 1..n, j \in 1..n : i <= j => d[i] <= d[j]}

\* one call of parseTransactions on the text
Parse ==
    /\ Len(parsed) < MaxParses
    /\ \E dates \in Readings(Len(Matching(text)), clock) :
        /\ parsed' = Append(parsed, [at |-> clock, out |-> ParseTransactions(text, dates)])
        /\ clock' = IF dates = <<>> THEN clock ELSE dates[Len(dates)]
    /\ UNCHANGED <<text, job, files, other>>
    /\ UNCHANGED routerVars

\* time passes
Tick ==
    /\ clock < MaxClock
    /\ clock' = clock + 1
    /\ UNCHANGED <<text, parsed, job, files, other>>
    /\ UNCHANGED routerVars

\* ------------------------------------------------------ the extraction

MaxPages == 10        \* Math.min(numPages, 10)
NaN == -1             \* parseInt of a string that does not start with a number
NoPage == -2          \* a path that names no page

PageCounts == {1, 3, 12}            \* pages of the PDFs handed to the extraction
Tools == {"convert", "pdf-image"}   \* the conversion method that works on this host

\* a path: directory, base name of the source file (a name and, for a temporary
\* copy, its timestamp), page and timestamp in the name
ImagesDir == "temp-pdf-images"
TmpDir == "/tmp"
DirEntry == [dir |-> ImagesDir, base |-> <<".", 0>>, page |-> NoPage, stamp |-> 0, ext |-> ""]
LocalPath == [dir |-> "uploads", base |-> <<"statement", 0>>, page |-> NoPage, stamp |-> 0,
              ext |-> "pdf"]
NoPath == [dir |-> "", base |-> <<"", 0>>, page |-> NoPage, stamp |-> 0, ext |-> ""]

\* `/tmp/temp-statement-${Date.now()}.${fileType.split('/')[1] || 'file'}`
TempCopyPath(now, fileType) ==
    [dir |-> TmpDir, base |-> <<"temp-statement", now>>, page |-> NoPage, stamp |-> 0,
     ext |-> fileType[2]]

\* convertPdfPageToImage: path.join(outputDir, `${pdfName}-page-${pageNum}-${timestamp}.png`)
\* with ImageMagick; pdf-image writes `${pdfName}-${pageNum}.png` next to the PDF
RasterPath(tool, pdfPath, pageNum, now) ==
    IF tool = "convert"
    THEN [dir |-> ImagesDir, base |-> pdfPath.base, page |-> pageNum, stamp |-> now,
          ext |-> "png"]
    ELSE [dir |-> pdfPath.dir, base |-> pdfPath.base, page |-> pageNum, stamp |-> 0,
          ext |-> "png"]

\* the decimal digits of a number, as pdftk prints it
RECURSIVE Decimal(_)
Decimal(n) ==
    LET digit == CHOOSE c \in Digits : DigitValue[c] = n % 10 IN
    IF n < 10 THEN <<digit>> ELSE Append(Decimal(n \div 10), digit)

\* what `pdftk ... dump_data | grep NumberOfPages | awk '{print $2}'` can write
\* to stdout for a PDF of n pages: the number and a line break, nothing (pdftk
\* missing or failing inside the pipeline), or something that is no number
Stdouts(n) == {Append(Decimal(n), "\n"), <<>>, <<"-", "\n">>}

\* parseInt(str, 10): the leading digits, NaN when there is none
ParseInt(str) ==
    IF DigitsEnd(str, 0) = 0 THEN NaN ELSE NumberOf(SubSeq(str, 1, DigitsEnd(str, 0)))

\* Math.min(a, b) and a < b; both are NaN-aware
MathMin(a, b) == IF a = NaN \/ b = NaN THEN NaN ELSE IF a < b THEN a ELSE b
Less(a, b) == a # NaN /\ b # NaN /\ a < b

\* the pieces of the text extractTextFromPdf builds
Newline == [kind |-> "newline", page |-> 0]
Marker(k) == [kind |-> "marker", page |-> k]         \* "--- Page k ---"
PageText(k) == [kind |-> "text", page |-> k]         \* the OCR text of page k

\* allText.trim()
TrimText(str) ==
    LET kept == {i \in 1..Len(str) : str[i] # Newline} IN
    IF kept = {} THEN <<>>
    ELSE SubSeq(str, CHOOSE a \in kept : \A b \in kept : a <= b,
                     CHOOSE a \in kept : \A b \in kept : a >= b)

\* ProcessUploadResult
NoResult == [success |-> FALSE, text |-> <<>>, error |-> NoText]
Failure(error) == [success |-> FALSE, text |-> <<>>, error |-> error]
Success(str) == [success |-> TRUE, text |-> str, error |-> NoText]

\* processUploadedFile(filePathOrUrl, fileType) is called
NewJob(isUrl, fileType, pages, tool) ==
    [pc |-> "read", isUrl |-> isUrl, fileType |-> fileType, pages |-> pages, tool |-> tool,
     stdout |-> <<>>, counted |-> FALSE, numPages |-> 1, pagesToProcess |-> 0, i |-> 0,
     tempFiles |-> <<>>, allText |-> <<>>, extracted |-> <<>>,
     tempFilePath |-> NoPath, needsCleanup |-> FALSE, thrown |-> NoText,
     result |-> NoResult, converted |-> <<>>, scanned |-> <<>>, blank |-> {},
     created |-> {}]

\* processStatement: the branch on the MIME type
Dispatched(j) ==
    IF j.fileType[1] = "image" THEN [j EXCEPT !.pc = "ocrImage"]
    ELSE IF j.fileType = PdfType THEN [j EXCEPT !.pc = "pageCount"]
    ELSE [j EXCEPT !.pc = "unlinkCopy", !.thrown = "Unsupported file type"]

\* the file the call works on can be read: a local source, or a temporary copy
\* that is on disk
SourcePresent(j) == ~j.needsCleanup \/ j.tempFilePath \in files

StartExtraction(isUrl, fileType, pages, tool) ==
    /\ job.pc = "idle"
    /\ job' = NewJob(isUrl, fileType, pages, tool)
    /\ UNCHANGED <<text, clock, parsed, files, other>>
    /\ UNCHANGED routerVars

\* fetch(url) and arrayBuffer(), or fs.access / stat / readFile of a local path
ReadSource ==
    /\ job.pc = "read"
    /\ \/ job' = [job EXCEPT !.pc = "returned",
                              !.result = Failure(IF job.isUrl
                                                 THEN "Failed to fetch file from URL"
                                                 ELSE "File not found or not accessible")]
       \/ job' = IF job.isUrl THEN [job EXCEPT !.pc = "write"]
                 ELSE Dispatched([job EXCEPT !.tempFilePath = LocalPath])
    /\ UNCHANGED <<text, clock, parsed, files, other>>
    /\ UNCHANGED routerVars

\* fs.writeFile(tempFilePath, fileContent), before the inner try block
WriteCopy ==
    /\ job.pc = "write"
    /\ \/ LET path == TempCopyPath(clock, job.fileType) IN
          /\ files' = files \cup {path}
          /\ job' = Dispatched([job EXCEPT !.tempFilePath = path, !.needsCleanup = TRUE,
                                           !.created = @ \cup {path}])
       \/ /\ job' = [job EXCEPT !.pc = "returned",
                                 !.result = Failure("Error during Vision AI processing")]
          /\ UNCHANGED files
    /\ UNCHANGED <<text, clock, parsed, other>>
    /\ UNCHANGED routerVars

\* extractTextFromImage of the file itself (an image upload); it throws when
\* fs.access does not find the file
OcrImage ==
    /\ job.pc = "ocrImage"
    /\ \/ /\ SourcePresent(job)
          /\ job' = [job EXCEPT !.pc = "unlinkCopy", !.extracted = <<PageText(1)>>]
       \/ /\ SourcePresent(job)
          /\ job' = [job EXCEPT !.pc = "unlinkCopy"]
       \/ job' = [job EXCEPT !.pc = "unlinkCopy", !.thrown = "Failed to extract text"]
    /\ UNCHANGED <<text, clock, parsed, files, other>>
    /\ UNCHANGED routerVars

\* the loop test of extractTextFromPdf: for (...; i < pagesToProcess; ...)
LoopOrCleanup(j) ==
    IF Less(j.i, j.pagesToProcess) THEN [j EXCEPT !.pc = "mkdir"] ELSE [j EXCEPT !.pc = "cleanup"]

\* the page count: execAsync of the pdftk pipeline, parseInt of its stdout, and
\* const pagesToProcess = Math.min(numPages, 10); when execAsync rejects
\* numPages keeps its initial value 1; pdftk prints no number for a file that is
\* not there
PageCount ==
    /\ job.pc = "pageCount"
    /\ \/ job' = LoopOrCleanup([job EXCEPT !.pagesToProcess = MathMin(1, MaxPages)])
       \/ \E out \in {o \in Stdouts(job.pages) : SourcePresent(job) \/ ParseInt(Trim(o)) = NaN} :
            LET n == ParseInt(Trim(out)) IN
            job' = LoopOrCleanup([job EXCEPT !.stdout = out, !.counted = TRUE,
                                            !.numPages = n,
                                            !.pagesToProcess = MathMin(n, MaxPages)])
    /\ UNCHANGED <<text, clock, parsed, files, other>>
    /\ UNCHANGED routerVars

\* convertPdfPageToImage, first await: fs.mkdir(outputDir, {recursive: true})
MakeDir ==
    /\ job.pc = "mkdir"
    /\ files' = files \cup {DirEntry}
    /\ job' = [job EXCEPT !.pc = "convert"]
    /\ UNCHANGED <<text, clock, parsed, other>>
    /\ UNCHANGED routerVars

\* convertPdfPageToImage, the conversion of page i (0-based) with the method
\* that works, and tempFiles.push(imagePath); when no method works it throws.
\* ImageMagick cannot write into a directory that is not there: the fallback
\* (pdf-image) is tried then. No method converts a file that is not there.
ConvertPage ==
    /\ job.pc = "convert"
    /\ \/ \E tool \in IF job.tool = "convert" /\ DirEntry \notin files
                       THEN {"pdf-image"} ELSE {job.tool} :
          LET path == RasterPath(tool, job.tempFilePath, job.i, clock) IN
          /\ SourcePresent(job)
          /\ files' = files \cup {path}
          /\ job' = [job EXCEPT !.pc = "ocr", !.tempFiles = Append(@, path),
                                !.created = @ \cup {path},
                                !.converted = Append(@, job.i + 1)]
       \/ /\ job' = [job EXCEPT !.pc = "cleanup",
                                 !.thrown = "Failed to convert PDF to image"]
          /\ UNCHANGED files
    /\ UNCHANGED <<text, clock, parsed, other>>
    /\ UNCHANGED routerVars

\* extractTextFromImage(imagePath) of page i (it throws when fs.access does not
\* find the image) and
\* if (pageText) allText += `\n--- Page ${i+1} ---\n${pageText}\n`
OcrPage_always ==
    /\ job.pc = "ocr"
    /\ LET k == job.i + 1
           sent == [job EXCEPT !.scanned = Append(@, k), !.i = k]
       IN \/ /\ job.tempFiles[Len(job.tempFiles)] \in files
             /\ job' = LoopOrCleanup([sent EXCEPT !.allText =
                        @ \o <<Newline, Marker(k), Newline, PageText(k), Newline>>])
          \/ /\ job.tempFiles[Len(job.tempFiles)] \in files
             /\ job' = LoopOrCleanup([sent EXCEPT !.blank = @ \cup {k}, !.allText =
                        @ \o <<Newline, Marker(k), Newline, Newline>>])
          \/ job' = [sent EXCEPT !.pc = "cleanup", !.i = job.i,
                                 !.thrown = "Failed to extract text"]
    /\ UNCHANGED <<text, clock, parsed, files, other>>
    /\ UNCHANGED routerVars
OcrPage ==
    /\ job.pc = "ocr"
    /\ LET k == job.i + 1
           sent == [job EXCEPT !.scanned = Append(@, k), !.i = k]
       IN \/ /\ job.tempFiles[Len(job.tempFiles)] \in files
             /\ job' = LoopOrCleanup([sent EXCEPT !.allText =
                        @ \o <<Newline, Marker(k), Newline, PageText(k), Newline>>])
          \/ /\ job.tempFiles[Len(job.tempFiles)] \in files
             /\ job' = LoopOrCleanup([sent EXCEPT !.blank = @ \cup {k}])
          \/ job' = [sent EXCEPT !.pc = "cleanup", !.i = job.i,
                                 !.thrown = "Failed to extract text"]
    /\ UNCHANGED <<text, clock, parsed, files, other>>
    /\ UNCHANGED routerVars

\* the finally block of extractTextFromPdf: fs.unlink of every path of
\* tempFiles, one await each; an unlink that throws (no such file) is ignored
Cleanup_unlessThrown ==
    /\ job.pc = "cleanup"
    /\ IF job.tempFiles # <<>> /\ job.thrown = NoText
       THEN /\ files' = files \ {Head(job.tempFiles)}
            /\ job' = [job EXCEPT !.tempFiles = Tail(@)]
       ELSE /\ job' = [job EXCEPT !.pc = "rmdir"]
            /\ UNCHANGED files
    /\ UNCHANGED <<text, clock, parsed, other>>
    /\ UNCHANGED routerVars
Cleanup ==
    /\ job.pc = "cleanup"
    /\ IF job.tempFiles # <<>>
       THEN /\ files' = files \ {Head(job.tempFiles)}
            /\ job' = [job EXCEPT !.tempFiles = Tail(@)]
       ELSE /\ job' = [job EXCEPT !.pc = "rmdir"]
            /\ UNCHANGED files
    /\ UNCHANGED <<text, clock, parsed, other>>
    /\ UNCHANGED routerVars

\* the end of that finally block: readdir(outputDir), rmdir when it is empty
\* (errors ignored); then extractTextFromPdf returns allText.trim() or rethrows
RemoveDir ==
    /\ job.pc = "rmdir"
    /\ files' = IF \E f \in files : f.dir = ImagesDir /\ f # DirEntry
                THEN files ELSE files \ {DirEntry}
    /\ job' = [job EXCEPT !.pc = "unlinkCopy",
                          !.extracted = IF job.thrown = NoText THEN TrimText(job.allText)
                                        ELSE <<>>,
                          !.allText = <<>>]
    /\ UNCHANGED <<text, clock, parsed, other>>
    /\ UNCHANGED routerVars

\* the end of processUploadedFile: the finally block unlinks the temporary copy
\* when one was written, and the call returns its result
UnlinkCopy ==
    /\ job.pc = "unlinkCopy"
    /\ files' = IF job.needsCleanup THEN files \ {job.tempFilePath} ELSE files
    /\ job' = [job EXCEPT !.pc = "returned", !.extracted = <<>>,
                          !.result =
                            IF job.thrown # NoText
                            THEN Failure("Error during Vision AI processing")
                            ELSE IF TrimText(job.extracted) = <<>>
                            THEN Failure("No text could be extracted from the file")
                            ELSE Success(job.extracted)]
    /\ UNCHANGED <<text, clock, parsed, other>>
    /\ UNCHANGED routerVars

\* two calls of processUploadedFile in one process: each runs until its next
\* await, then the event loop may resume the other one
Switch ==
    /\ job' = other
    /\ other' = job
    /\ UNCHANGED <<text, clock, parsed, files>>
    /\ UNCHANGED routerVars

\* ------------------------------------------------------ specifications

\* one call of processUploadedFile, for any source, MIME type and PDF
InitExtract ==
    /\ job = NoJob
    /\ other = NoJob
    /\ files = {}
    /\ text = <<>>
    /\ clock = 0
    /\ parsed = <<>>
    /\ statements = <<>>
    /\ accounts = <<>>
    /\ transactions = <<>>
    /\ runs = <<>>
    /\ reply = [code |-> "none", message |-> NoText]

NextExtract ==
    \/ \E isUrl \in BOOLEAN, fileType \in FileTypes, pages \in PageCounts, tool \in Tools :
            StartExtraction(isUrl, fileType, pages, tool)
    \/ ReadSource
    \/ WriteCopy
    \/ OcrImage
    \/ PageCount
    \/ MakeDir
    \/ ConvertPage
    \/ OcrPage
    \/ Cleanup
    \/ RemoveDir
    \/ UnlinkCopy

SpecExtract == InitExtract /\ [][NextExtract]_vars

\* the PDFs and images handed to two concurrent calls of processUploadedFile
ConcurrentTypes == {PdfType, JpegType}
ConcurrentPages == {1}

\* two calls of processUploadedFile that interleave at their awaits, while time
\* passes
NextConcurrent ==
    \/ \E isUrl \in BOOLEAN, fileType \in ConcurrentTypes, pages \in ConcurrentPages,
          tool \in Tools :
            StartExtraction(isUrl, fileType, pages, tool)
    \/ Switch
    \/ Tick
    \/ ReadSource
    \/ WriteCopy
    \/ OcrImage
    \/ PageCount
    \/ MakeDir
    \/ ConvertPage
    \/ OcrPage
    \/ Cleanup
    \/ RemoveDir
    \/ UnlinkCopy

SpecConcurrent == InitExtract /\ [][NextConcurrent]_vars

\* parseTransactions called on one text at several moments
InitParser ==
    /\ text \in Texts
    /\ clock = 0
    /\ parsed = <<>>
    /\ job = NoJob
    /\ other = NoJob
    /\ files = {}
    /\ statements = <<>>
    /\ accounts = <<>>
    /\ transactions = <<>>
    /\ runs = <<>>
    /\ reply = [code |-> "none", message |-> NoText]

NextParser == Parse \/ Tick

SpecParser == InitParser /\ [][NextParser]_vars

\* the router of statement.ts: upload with its detached task, process, getById,
\* linkToAccount
Next ==
    \/ \E u \in Users, a \in AccountIds \cup {None} : Upload(u, a, PdfUpload)
    \/ \E u \in Users, sid \in 1..(Len(statements) + 1) : Process(u, sid)
    \/ \E u \in Users, sid \in 1..(Len(statements) + 1) : GetById(u, sid)
    \/ \E u \in Users, sid \in 1..(Len(statements) + 1), aid \in 1..(Len(accounts) + 1) :
            LinkToAccount(u, sid, aid)
    \/ \E r \in RunIds :
            \/ SetProcessing(r)
            \/ Extract(r)
            \/ FindAccount(r)
            \/ UpdateBalance(r)
            \/ CreateAccount(r)
            \/ SetCompleted(r)
            \/ MarkFailed(r)

Spec == Init /\ [][Next]_vars

\* the router of part_000: upload with the pipeline inside the request
NextAwaited ==
    \/ \E u \in Users, hasFileUrl \in BOOLEAN, hasFileData \in BOOLEAN :
            UploadAwaited(u, hasFileUrl, hasFileData, PdfUpload)
    \/ \E r \in RunIds :
            \/ SetProcessing(r)
            \/ Extract(r)
            \/ InsertTransactions(r)
            \/ SetCompleted(r)
            \/ MarkFailed(r)

SpecAwaited == Init /\ [][NextAwaited]_vars

\* the upload operations of both revisions, side by side
NextUploads ==
    \/ \E u \in Users, a \in AccountIds \cup {None} : Upload(u, a, PdfUpload)
    \/ \E u \in Users, hasFileUrl \in BOOLEAN, hasFileData \in BOOLEAN :
            UploadAwaited(u, hasFileUrl, hasFileData, PdfUpload)
    \/ \E r \in RunIds :
            \/ SetProcessing(r)
            \/ Extract(r)
            \/ FindAccount(r)
            \/ UpdateBalance(r)
            \/ CreateAccount(r)
            \/ InsertTransactions(r)
            \/ SetCompleted(r)
            \/ MarkFailed(r)

SpecUploads == Init /\ [][NextUploads]_vars

\* the router of statement.ts when pipeline runs are serialized: a run starts
\* only when no other run is in progress
NextSerial ==
    \/ \E u \in Users, a \in AccountIds \cup {None} :
            Active = {} /\ Upload(u, a, PdfUpload)
    \/ \E u \in Users, sid \in 1..(Len(statements) + 1) : Active = {} /\ Process(u, sid)
    \/ \E u \in Users, sid \in 1..(Len(statements) + 1), aid \in 1..(Len(accounts) + 1) :
            LinkToAccount(u, sid, aid)
    \/ \E r \in RunIds :
            \/ SetProcessing(r)
            \/ Extract(r)
            \/ FindAccount(r)
            \/ UpdateBalance(r)
            \/ CreateAccount(r)
            \/ SetCompleted(r)
            \/ MarkFailed(r)

SpecSerial == Init /\ [][NextSerial]_vars

\* process of statement.ts over the Statements that the upload of part_000 left
\* in the database, with and without a storage URL, under any file name
NextProcess ==
    \/ \E u \in Users, hasFileUrl \in BOOLEAN, hasFileData \in BOOLEAN, f \in PdfUploads :
            UploadAwaited(u, hasFileUrl, hasFileData, f)
    \/ \E u \in Users, sid \in 1..(Len(statements) + 1) : Process(u, sid)
    \/ \E r \in RunIds :
            \/ SetProcessing(r)
            \/ Extract(r)
            \/ FindAccount(r)
            \/ UpdateBalance(r)
            \/ CreateAccount(r)
            \/ InsertTransactions(r)
            \/ SetCompleted(r)
            \/ MarkFailed(r)

SpecProcess == Init /\ [][NextProcess]_vars

\* the next step of run r: the continuation of the await it stands at
Step(r) ==
    /\ r \in RunIds
    /\ \/ SetProcessing(r)
       \/ Extract(r)
       \/ FindAccount(r)
       \/ UpdateBalance(r)
       \/ CreateAccount(r)
       \/ SetCompleted(r)
       \/ MarkFailed(r)

\* the router of statement.ts with extractions that may hang, in the session of
\* one user
Caller == "u1"
NextHang ==
    \/ Upload(Caller, None, PdfUpload)
    \/ GetRecent(Caller)
    \/ \E sid \in 1..(Len(statements) + 1) : GetById(Caller, sid)
    \/ \E sid \in 1..(Len(statements) + 1), aid \in 1..(Len(accounts) + 1) :
            LinkToAccount(Caller, sid, aid)
    \/ \E r \in RunIds : Hang(r)
    \/ \E r \in 1..MaxRuns : Step(r)

\* the event loop runs the continuation of every await that has settled: a run
\* that can take its next step takes it
SpecHang ==
    Init /\ [][NextHang]_vars /\ \A r \in 1..MaxRuns : WF_vars(Step(r))

\* ---------------------------------------------------------------- claims

\* the statement a step of run r wrote, if any: the row differs after the step
Wrote(r) == statements'[runs[r].sid] # statements[runs[r].sid]

\* C1 (as stated): every change of a status is UPLOADED -> PROCESSING,
\* PROCESSING -> COMPLETED or PROCESSING -> FAILED.
C1_OnlyForward ==
    [][\A s \in StatementIds :
          statements'[s].status # statements[s].status =>
              <<statements[s].status, statements'[s].status>> \in
                  {<<UPLOADED, PROCESSING>>, <<PROCESSING, COMPLETED>>,
                   <<PROCESSING, FAILED>>}]_vars

\* C1 (amended): a Statement is created UPLOADED; every change of a status writes
\* PROCESSING, COMPLETED or FAILED, never UPLOADED or REVIEW_NEEDED, and COMPLETED
\* never follows UPLOADED directly (a run writes PROCESSING first).
C1_StatusWrites ==
    [][/\ \A s \in StatementIds :
            statements'[s].status # statements[s].status =>
                /\ statements'[s].status \in {PROCESSING, COMPLETED, FAILED}
                /\ ~(statements[s].status = UPLOADED /\ statements'[s].status = COMPLETED)
       /\ \A s \in (1..Len(statements')) \ StatementIds :
            statements'[s].status = UPLOADED]_vars

\* a statement that a run already ended (processedTimestamp) is in PROCESSING again
C1_Witness ==
    \E s \in StatementIds :
        statements[s].status = PROCESSING /\ statements[s].processedTimestamp

ExtractionMessages == {ThrownMessage(e) : e \in ExtractionErrors}

Uploads == {r \in RunIds : runs[r].kind \in {"upload", "uploadAwaited"}}

\* C4 (as stated): upload answers {success, statementId} as soon as the Statement
\* is created, whatever the pipeline does afterwards.
C4_AnswersAtOnce ==
    \A r \in Uploads : runs[r].response = SuccessReply(runs[r].sid)

\* C4 (amended): the upload of statement.ts answers {success, statementId} as soon
\* as the Statement is created and the answer never changes; the upload of part_000
\* answers only when its run is over, with the Statement row as the run left it
\* (or with the error of a failed FAILED write).
C4_DetachedAnswersAtOnce ==
    \A r \in Uploads :
        /\ runs[r].sid \in StatementIds
        /\ runs[r].kind = "upload" => runs[r].response = SuccessReply(runs[r].sid)
        /\ runs[r].kind = "uploadAwaited" =>
              IF runs[r].pc # "done" THEN runs[r].response = NoReply
              ELSE runs[r].response \in
                      {StatementReply(runs[r].sid, COMPLETED),
                       StatementReply(runs[r].sid, FAILED), ErrorReply(SyncFailure)}

\* the caller holds the id while the PROCESSING write has not happened yet
C4_Witness ==
    \E r \in RunIds :
        /\ runs[r].kind = "upload" /\ runs[r].pc = "setProcessing"
        /\ runs[r].response = SuccessReply(runs[r].sid)
        /\ statements[runs[r].sid].status = UPLOADED

\* C5: no step of the detached task of an upload changes what the caller was
\* answered, or answers any request: the answer stays {success, statementId} also
\* when the task throws, the write of FAILED included.
C5_TaskErrorsStayInside ==
    [][\A r \in RunIds :
          (runs[r].kind = "upload" /\ runs'[r] # runs[r]) =>
              /\ runs'[r].response = SuccessReply(runs[r].sid)
              /\ runs'[r].response = runs[r].response
              /\ reply' = reply]_vars

\* the PROCESSING write and then the FAILED write of a detached task threw: the
\* Statement is still UPLOADED and the caller holds a success answer
C5_Witness ==
    \E r \in RunIds :
        /\ runs[r].kind = "upload" /\ runs[r].pc = "done" /\ runs[r].error = DbError
        /\ statements[runs[r].sid].status = UPLOADED
        /\ runs[r].response.code = "success"

UploadFailures ==
    {TRPCError(code, m) : code \in {"INTERNAL_SERVER_ERROR", "BAD_REQUEST", "NOT_FOUND"},
                          m \in {"Failed to upload file", "Failed to upload statement", DbError}}

\* C6: an upload whose storage write or Statement creation fails is answered
\* INTERNAL_SERVER_ERROR, creates no Statement and starts no run (so no extraction).
C6_SyncFailureAborts ==
    [][(reply' # reply /\ reply' \in UploadFailures) =>
          /\ reply'.code = "INTERNAL_SERVER_ERROR"
          /\ UNCHANGED <<statements, accounts, transactions, runs>>]_vars

\* the storage write of an upload failed
C6_Witness ==
    /\ reply = TRPCError("INTERNAL_SERVER_ERROR", "Failed to upload file")
    /\ runs = <<>> /\ statements = <<>>

SameKey(a, b) ==
    /\ accounts[a].userId = accounts[b].userId
    /\ accounts[a].financialInstitution = accounts[b].financialInstitution
    /\ accounts[a].lastFourDigits = accounts[b].lastFourDigits

Matches(a, run) ==
    /\ accounts[a].userId = run.userId
    /\ accounts[a].financialInstitution = run.info.financialInstitution
    /\ accounts[a].lastFourDigits = run.info.lastFourDigits

\* C7: with serialized runs there is at most one BankAccount per (user,
\* institution, lastFour): a run creates an account only while no row matches,
\* and a run that found a row holds the id of the one matching row.
C7_OneAccountPerKey ==
    /\ \A a, b \in AccountIds : SameKey(a, b) => a = b
    /\ \A r \in RunIds :
        /\ runs[r].pc = "createAccount" => \A a \in AccountIds : ~Matches(a, runs[r])
        /\ runs[r].pc = "updateBalance" =>
              \A a \in AccountIds : Matches(a, runs[r]) <=> a = runs[r].accountId

\* a first run created the account and a later run, which looked it up, linked
\* its statement to the same id and created nothing
C7_Witness ==
    \E r1, r2 \in RunIds :
        /\ runs[r1].pc = "done" /\ runs[r2].pc = "done"
        /\ runs[r1].created # None /\ runs[r2].created = None
        /\ runs[r2].error = NoText /\ runs[r2].lookupSaw >= runs[r1].created
        /\ runs[r1].sid # runs[r2].sid
        /\ statements[runs[r1].sid].accountId = runs[r1].created
        /\ statements[runs[r2].sid].accountId = runs[r1].created

\* C8: two BankAccount rows with the same (user, institution, lastFour) exist only
\* through interleaved runs: the run that created the later row had looked the
\* key up before the earlier row was created.
C8_DuplicatesByRace ==
    \A a1, a2 \in AccountIds :
        (a1 < a2 /\ SameKey(a1, a2)) =>
            \E r \in RunIds : runs[r].created = a2 /\ runs[r].lookupSaw < a1

\* two rows with the same key exist and two statements of the user are linked to
\* the two different ids
C8_Witness ==
    \E a1, a2 \in AccountIds, s1, s2 \in StatementIds :
        /\ a1 # a2 /\ SameKey(a1, a2) /\ s1 # s2
        /\ statements[s1].userId = accounts[a1].userId
        /\ statements[s2].userId = accounts[a1].userId
        /\ statements[s1].status = COMPLETED /\ statements[s1].accountId = a1
        /\ statements[s2].status = COMPLETED /\ statements[s2].accountId = a2

\* the steps of the account find-or-create
Resolving == {"findAccount", "updateBalance", "createAccount"}

\* the frame of C9: a run enters the find-or-create only without an explicit
\* account id and with both an institution and last-four digits, and only a run
\* inside the find-or-create changes BankAccount rows
C9_Frame ==
    /\ \A r \in RunIds :
          runs'[r].pc \in Resolving =>
              /\ runs'[r].inputAccountId = None
              /\ runs'[r].info.financialInstitution # NoText
              /\ runs'[r].info.lastFourDigits # NoText
    /\ accounts' # accounts =>
          \E r \in RunIds : runs[r].pc \in {"updateBalance", "createAccount"}
                            /\ runs'[r] # runs[r]

\* the final write of run r
FinalWrite(r) == runs[r].pc = "setCompleted" /\ runs'[r].pc = "done"

\* C9 (as stated): without a find-or-create the Statement ends with the explicit
\* account id, or with no account reference when none was supplied.
C9_NoResolution ==
    [][/\ C9_Frame
       /\ \A r \in RunIds :
            (FinalWrite(r) /\ runs[r].kind # "uploadAwaited") =>
                /\ runs[r].inputAccountId # None =>
                      statements'[runs[r].sid].accountId = runs[r].inputAccountId
                /\ (runs[r].inputAccountId = None /\ runs[r].accountId = None) =>
                      statements'[runs[r].sid].accountId = None]_vars

\* C9 (amended): as stated, except that without an explicit id and without a
\* find-or-create the final write sets no account reference: process resets the
\* reference to none, upload leaves the field as it is (none, unless linkToAccount
\* set one while the task was running).
C9_NoResolutionWrite ==
    [][/\ C9_Frame
       /\ \A r \in RunIds :
            (FinalWrite(r) /\ runs[r].kind # "uploadAwaited") =>
                /\ runs[r].inputAccountId # None =>
                      statements'[runs[r].sid].accountId = runs[r].inputAccountId
                /\ (runs[r].inputAccountId = None /\ runs[r].accountId = None) =>
                      statements'[runs[r].sid].accountId =
                          IF runs[r].kind = "process" THEN None
                          ELSE statements[runs[r].sid].accountId]_vars

\* an upload without explicit id skipped the find-or-create and is about to make
\* its final write, while linkToAccount has given its Statement an account
C9_Witness ==
    \E r \in RunIds :
        /\ runs[r].kind = "upload" /\ runs[r].pc = "setCompleted"
        /\ runs[r].inputAccountId = None /\ runs[r].accountId = None
        /\ statements[runs[r].sid].accountId # None

\* C10: a lookup that finds a matching row takes its id and creates nothing; the
\* balance update follows exactly when a balance was extracted, and writes that
\* balance into that row and nothing else.
C10_ExistingAccount ==
    [][\A r \in RunIds :
          /\ (runs[r].pc = "findAccount" /\ runs'[r].accountId # None) =>
                /\ Matches(runs'[r].accountId, runs[r])
                /\ accounts' = accounts
                /\ runs'[r].created = None
                /\ runs'[r].pc = IF runs[r].info.balance # NoBalance
                                 THEN "updateBalance" ELSE "setCompleted"
          /\ (runs[r].pc = "updateBalance" /\ runs'[r] # runs[r]) =>
                /\ runs[r].existing = runs[r].accountId
                /\ runs[r].info.balance # NoBalance
                /\ \/ runs'[r].pc = "catch" /\ accounts' = accounts
                   \/ /\ runs'[r].pc = "setCompleted"
                      /\ runs'[r].accountId = runs[r].accountId
                      /\ accounts' = [accounts EXCEPT
                              ![runs[r].accountId].balance = runs[r].info.balance]]_vars

\* a run found an existing row whose balance differs from the extracted one
C10_Witness ==
    \E r \in RunIds :
        /\ runs[r].pc = "updateBalance"
        /\ accounts[runs[r].existing].balance # runs[r].info.balance
        /\ accounts[runs[r].existing].balance # NoBalance

\* C11: a run reaches the extraction call only by the step in which its own
\* PROCESSING write succeeded; every run starts before that write, and a step
\* that leaves the write without having written PROCESSING (the write threw)
\* ends in the catch block or ends the run, never in the extraction call
C11_ProcessingBeforeExtraction ==
    [][/\ \A r \in RunIds' \ RunIds : runs'[r].pc = "setProcessing"
       /\ \A r \in RunIds :
            /\ (runs'[r].pc = "extract" /\ runs[r].pc # "extract") =>
                    /\ runs[r].pc = "setProcessing"
                    /\ statements'[runs[r].sid].status = PROCESSING
            /\ (runs[r].pc = "setProcessing" /\ runs'[r].pc # "setProcessing"
                    /\ statements'[runs[r].sid].status # PROCESSING) =>
                    runs'[r].pc \in {"catch", "done"}
            /\ (runs[r].pc # "extract" /\ runs'[r].pc # runs[r].pc /\ runs'[r].pc \in
                    {"findAccount", "updateBalance", "createAccount", "insertTx",
                     "setCompleted"}) =>
                    runs[r].pc \in {"findAccount", "updateBalance", "createAccount",
                                    "insertTx"}]_vars

\* a run stands at the extraction call and its statement is PROCESSING, while
\* another run has ended on a write that threw
C11_Witness ==
    \E r \in RunIds, q \in RunIds :
        /\ runs[r].pc = "extract"
        /\ statements[runs[r].sid].status = PROCESSING
        /\ runs[q].pc = "done"
        /\ runs[q].error = DbError

\* the file names with the .pdf extension
PdfNames ==
    {n \in Filenames : Len(n) >= 4 /\ n[Len(n) - 3] = "." /\ n[Len(n) - 2] = "p"
                                   /\ n[Len(n) - 1] = "d" /\ n[Len(n)] = "f"}

Owned(userId, sid) == sid \in StatementIds /\ statements[sid].userId = userId

Rank(pc) ==
    CASE pc = "setProcessing" -> 0
      [] pc = "extract" -> 1
      [] pc = "findAccount" -> 2
      [] pc \in {"updateBalance", "createAccount", "insertTx"} -> 3
      [] pc = "setCompleted" -> 4
      [] pc = "catch" -> 5
      [] pc = "done" -> 6

\* C13: every step of a run moves it forward in the source text, so the run
\* passes the extraction call, the account lookup and the account creation at
\* most once each and a finished run does nothing more; the only step of a run
\* after a failure is the catch block, which touches no account and no
\* transaction, writes at most its own statement, as FAILED, and ends the run
C13_NoRetry ==
    [][\A r \in RunIds :
            /\ runs'[r] # runs[r] => Rank(runs'[r].pc) > Rank(runs[r].pc)
            /\ (runs[r].pc = "catch" /\ runs'[r] # runs[r]) =>
                    /\ runs'[r].pc = "done"
                    /\ UNCHANGED <<accounts, transactions>>
                    /\ \A sid \in StatementIds :
                            statements'[sid] # statements[sid] =>
                                sid = runs[r].sid /\ statements'[sid].status = FAILED]_vars

\* a run failed after it had created an account (the final write threw) and
\* ended on the FAILED write
C13_Witness ==
    \E r \in RunIds :
        /\ runs[r].pc = "done"
        /\ runs[r].error = DbError
        /\ runs[r].created # None
        /\ statements[runs[r].sid].status = FAILED
        /\ statements[runs[r].sid].errorMessage = DbError

NotFound == TRPCError("NOT_FOUND", "Statement not found")

\* C19: in every state, a step of getById, process or linkToAccount for a
\* statement that does not exist or is another user's changes no row, starts no
\* run and, once the lookup has returned, answers NOT_FOUND; linkToAccount answers NOT_FOUND too, and changes nothing,
\* for an account that does not exist or is another user's; when both rows are
\* the caller's it changes the accountId of that Statement and nothing else
C19_OwnRowsOnly ==
    \A u \in Users, sid \in 1..(MaxRuns + 1) :
        /\ ~Owned(u, sid) =>
            ~ENABLED ((GetById(u, sid) \/ Process(u, sid) \/
                        \E aid \in 1..(MaxRuns + 1) : LinkToAccount(u, sid, aid))
                      /\ ~(/\ reply' \in {NotFound, Uncaught}
                           /\ UNCHANGED <<statements, accounts, transactions, runs>>))
        /\ \A aid \in 1..(MaxRuns + 1) :
            ~ENABLED (LinkToAccount(u, sid, aid)
                      /\ ~(IF reply' = Uncaught \/ ~Owned(u, sid)
                           THEN UNCHANGED <<statements, accounts, transactions, runs>>
                           ELSE IF ~(aid \in AccountIds /\ accounts[aid].userId = u)
                           THEN /\ reply'.code = "NOT_FOUND"
                                /\ UNCHANGED <<statements, accounts, transactions, runs>>
                           ELSE /\ reply' = Returned
                                /\ statements' = [statements EXCEPT ![sid].accountId = aid]
                                /\ UNCHANGED <<accounts, transactions, runs>>))

\* linkToAccount has set the account of a statement whose only run was started
\* without account and has not written one yet, and the latest call, for an
\* account that is not the caller's, was refused
C19_Witness ==
    \E r \in RunIds :
        /\ runs[r].pc = "extract"
        /\ runs[r].inputAccountId = None
        /\ \A q \in RunIds \ {r} : runs[q].sid # runs[r].sid
        /\ statements[runs[r].sid].accountId # None
        /\ statements[runs[r].sid].status = PROCESSING
        /\ reply = TRPCError("NOT_FOUND", "Bank account not found")

Hung == {r \in RunIds : runs[r].pc = "hung"}

Amounts(line) ==
    {p \in (1..Len(line)) \X (1..Len(line)) :
        /\ line[p[1]] = "$"
        /\ p[2] >= p[1] + 4
        /\ line[p[2] - 2] = "."
        /\ line[p[2] - 1] \in Digits /\ line[p[2]] \in Digits
        /\ \A k \in (p[1] + 1)..(p[2] - 3) : line[k] \in Digits}

HasAmount(line) == Amounts(line) # {}

\* the value, in hundredths, of the leftmost dollar amount of a line
LeftmostAmount(line) ==
    LET p == CHOOSE a \in Amounts(line) : \A b \in Amounts(line) : a[1] <= b[1] IN
    100 * NumberOf(SubSeq(line, p[1] + 1, p[2] - 3)) + NumberOf(SubSeq(line, p[2] - 1, p[2]))

\* d is the line without the white space at its two ends
IsTrimOf(d, line) ==
    \E a \in 0..Len(line) : \E b \in a..Len(line) :
        /\ d = SubSeq(line, a + 1, b)
        /\ \A k \in (1..a) \cup ((b + 1)..Len(line)) : line[k] \in Whitespace
        /\ d # <<>> => d[1] \notin Whitespace /\ d[Len(d)] \notin Whitespace

\* C14: every call of parseTransactions returns, in line order, one transaction
\* for each line of the text that holds a dollar amount and nothing for the
\* other lines; its description is the trimmed line and its amount the value of
\* the leftmost dollar amount of the line
C14_OnePerAmountLine ==
    \A c \in 1..Len(parsed) :
        LET out == parsed[c].out
            lines == SelectSeq(Split(text), HasAmount)
        IN /\ Len(out) = Len(lines)
           /\ \A n \in 1..Len(lines) :
                /\ IsTrimOf(out[n].description, lines[n])
                /\ out[n].amount = LeftmostAmount(lines[n])

\* the text "$12.00$4.50", a line break, "$4.5" has been parsed: one
\* transaction, for the first line, with the first of its two amounts
C14_Witness ==
    /\ text = <<"$", "1", "2", ".", "0", "0", "$", "4", ".", "5", "0", "\n",
                "$", "4", ".", "5">>
    /\ Len(parsed) >= 1
    /\ Len(parsed[1].out) = 1
    /\ parsed[1].out[1].amount = 1200
    /\ parsed[1].out[1].description[1] = "$"

PdfDone == job.pc = "returned" /\ job.fileType = PdfType /\ job.result.success

\* the pages whose marker line a text holds, in the order of the text
MarkerPages(str) ==
    LET marks == SelectSeq(str, LAMBDA item : item.kind = "marker")
    IN [n \in 1..Len(marks) |-> marks[n].page]

UpTo(n) == [k \in 1..n |-> k]

\* C16 as stated: the extraction converts pages 1..min(numPages, 10) in
\* order and the returned text holds the marker of every one of them, in order
C16_MarkerPerPage ==
    PdfDone =>
        /\ job.converted = UpTo(IF job.numPages < MaxPages THEN job.numPages ELSE MaxPages)
        /\ MarkerPages(job.result.text) = job.converted

\* C16: the pages are converted and sent to OCR one after the other from page 1
\* on, never beyond page 10; an extraction that ends without error has handled
\* pages 1..min(numPages, 10), numPages being the count the command printed, and
\* its text holds, in increasing order, the marker of exactly those pages whose
\* OCR text is not empty, each marker followed by the text of its page; the
\* text starts with a marker line
C16_MarkerPerTextPage ==
    /\ job.pc # "idle" =>
        /\ Len(job.converted) <= MaxPages
        /\ job.converted = UpTo(Len(job.converted))
        /\ job.scanned = UpTo(Len(job.scanned))
        /\ Len(job.scanned) \in {Len(job.converted), Len(job.converted) - 1}
    /\ PdfDone =>
        LET out == job.result.text
            n == IF job.numPages < MaxPages THEN job.numPages ELSE MaxPages
        IN /\ job.counted => job.numPages = job.pages
           /\ job.converted = UpTo(n) /\ job.scanned = UpTo(n)
           /\ MarkerPages(out) = SelectSeq(UpTo(n), LAMBDA k : k \notin job.blank)
           /\ out[1].kind = "marker"
           /\ \A x \in 1..Len(out) :
                /\ out[x].kind = "marker" =>
                        /\ x + 2 <= Len(out)
                        /\ out[x + 1] = Newline
                        /\ out[x + 2] = PageText(out[x].page)
                /\ out[x].kind = "text" =>
                        x > 2 /\ out[x - 2] = Marker(out[x].page)

\* a 12-page PDF has been extracted: ten pages were handled, page 3 had no
\* text and has no marker, page 10 has one
C16_Witness ==
    /\ PdfDone
    /\ job.pages = 12
    /\ job.scanned = UpTo(10)
    /\ job.blank = {3}
    /\ MarkerPages(job.result.text) = <<1, 2, 4, 5, 6, 7, 8, 9, 10>>

\* the page count of the PDF could not be determined: the command threw, or
\* what it printed does not start with a number
Undetermined == ~job.counted \/ ParseInt(Trim(job.stdout)) = NaN

\* C17: whenever the page count cannot be determined, an extraction in which
\* no conversion and no OCR call fails converts page 1, sends it to OCR, and
\* handles no other page
C17_DefaultsToOnePage ==
    (job.pc = "returned" /\ job.fileType = PdfType /\ job.tempFilePath # NoPath
        /\ Undetermined /\ job.result.error # "Error during Vision AI processing") =>
            job.converted = <<1>> /\ job.scanned = <<1>>

\* the command printed nothing, no page was converted and the extraction
\* returned "No text could be extracted from the file"
C17_Witness ==
    /\ job.pc = "returned" /\ job.fileType = PdfType
    /\ job.counted /\ job.stdout = <<>>
    /\ job.converted = <<>>
    /\ job.result = Failure("No text could be extracted from the file")

ActiveOn(sid) == {r \in Active : runs[r].sid = sid}

\* C21 (as stated): at most one pipeline run is active per Statement.
C21_OneRunPerStatement ==
    \A sid \in StatementIds : Cardinality(ActiveOn(sid)) <= 1

\* C21 (amended): runs are not serialized per Statement. A process call of the
\* owner on a statement with a storage URL can start a run whatever the status of
\* the statement and whatever runs are in progress on it; the new run is about to
\* write PROCESSING on that statement.
C21_RunsNotSerialized ==
    \A u \in Users, sid \in StatementIds :
        (Owned(u, sid) /\ statements[sid].hasUrl /\ Len(runs) < MaxRuns) =>
            ENABLED (/\ Process(u, sid)
                     /\ Len(runs') = Len(runs) + 1
                     /\ runs'[Len(runs')].sid = sid
                     /\ runs'[Len(runs')].pc = "setProcessing")

\* the task of an upload and a process call are in progress on the same statement:
\* the task has extracted and is about to write COMPLETED, the process call has
\* written PROCESSING and stands at its extraction
C21_Witness ==
    \E r1, r2 \in RunIds :
        /\ runs[r1].sid = runs[r2].sid
        /\ runs[r1].kind = "upload" /\ runs[r1].pc = "setCompleted"
        /\ runs[r2].kind = "process" /\ runs[r2].pc = "extract"
        /\ statements[runs[r1].sid].status = PROCESSING

\* linkToAccount wrote the account reference of the statement of run r while the
\* run was in progress: the reference is not the one the run captured when it
\* started, and no other run has written on that statement
LinkedDuring(r) ==
    /\ statements[runs[r].sid].accountId # None
    /\ statements[runs[r].sid].accountId # runs[r].inputAccountId
    /\ \A r2 \in RunIds : r2 # r => runs[r2].sid # runs[r].sid

\* C22: the final COMPLETED write of a run leaves an account reference that
\* linkToAccount wrote during the run as it is.
C22_LinkSurvives ==
    [][\A r \in RunIds :
          (FinalWrite(r) /\ LinkedDuring(r)) =>
              statements'[runs[r].sid].accountId = statements[runs[r].sid].accountId]_vars

\* the task of an upload without explicit account has resolved an account from
\* the text and is about to make its final write, while linkToAccount has linked
\* its statement to another account of the user
C22_Witness ==
    \E r \in RunIds :
        /\ runs[r].kind = "upload" /\ runs[r].pc = "setCompleted"
        /\ runs[r].inputAccountId = None /\ runs[r].accountId # None
        /\ LinkedDuring(r)
        /\ statements[runs[r].sid].accountId # runs[r].accountId
        /\ accounts[statements[runs[r].sid].accountId].userId = runs[r].userId

\* C23: a Statement that references a BankAccount references one of its own user.
C23_OwnAccount ==
    \A sid \in StatementIds :
        statements[sid].accountId # None =>
            /\ statements[sid].accountId \in AccountIds
            /\ accounts[statements[sid].accountId].userId = statements[sid].userId

\* an upload with the id of another user's account has been processed: the
\* statement is COMPLETED and references that account
C23_Witness ==
    \E sid \in StatementIds :
        /\ statements[sid].status = COMPLETED
        /\ statements[sid].accountId \in AccountIds
        /\ accounts[statements[sid].accountId].userId # statements[sid].userId

\* C24: a Statement has a non-empty errorMessage only in status FAILED.
C24_ErrorOnlyWhenFailed ==
    \A sid \in StatementIds :
        statements[sid].errorMessage # NoText => statements[sid].status = FAILED

\* a statement whose upload failed in the extraction has been processed again
\* with success: it is COMPLETED and still carries the message of the failed run
C24_Witness ==
    \E sid \in StatementIds, r1, r2 \in RunIds :
        /\ runs[r1].sid = sid /\ runs[r1].kind = "upload" /\ runs[r1].pc = "done"
        /\ runs[r2].sid = sid /\ runs[r2].kind = "process" /\ runs[r2].pc = "done"
        /\ runs[r2].response = StatementReply(sid, COMPLETED)
        /\ statements[sid].status = COMPLETED
        /\ statements[sid].errorMessage \in ExtractionMessages

\* C26: once the upload of part_000 has ended, a Statement in FAILED has no
\* Transaction rows and only a Statement in COMPLETED has some.
C26_AllOrNothing ==
    \A r \in RunIds :
        (runs[r].kind = "uploadAwaited" /\ runs[r].pc = "done") =>
            /\ statements[runs[r].sid].status = FAILED => transactions[runs[r].sid] = 0
            /\ transactions[runs[r].sid] > 0 => statements[runs[r].sid].status = COMPLETED

\* an upload has ended and answered with its statement in FAILED, after an insert
\* or the final write threw: the statement has Transaction rows
C26_Witness ==
    \E r \in RunIds :
        /\ runs[r].kind = "uploadAwaited" /\ runs[r].pc = "done"
        /\ runs[r].response = StatementReply(runs[r].sid, FAILED)
        /\ statements[runs[r].sid].status = FAILED
        /\ statements[runs[r].sid].errorMessage = DbError
        /\ transactions[runs[r].sid] > 0

\* a call of processUploadedFile that has started and not yet returned
InProgress(j) == j.pc \notin {"idle", "returned"}

\* C25: two extraction calls in progress never use the same temporary file path,
\* and the directory of the page images is there whenever a call stands between
\* its mkdir and the end of its page conversion.
C25_NoInterference ==
    /\ (InProgress(job) /\ InProgress(other)) => job.created \cap other.created = {}
    /\ \A j \in {job, other} : j.pc = "convert" => DirEntry \in files

\* two calls on PDFs that share no path: one has made the directory and waits for
\* ImageMagick to write its page image, the other has cleaned up, found the
\* directory empty and removed it
C25_Witness ==
    /\ other.pc = "convert" /\ other.tool = "convert" /\ other.isUrl
    /\ job.pc = "unlinkCopy" /\ job.fileType = PdfType /\ job.isUrl
    /\ job.converted = <<1>> /\ job.thrown = NoText
    /\ job.created \cap other.created = {}
    /\ DirEntry \notin files
====
